---- MODULE Spec2Model ----
(***************************************************************************)
(* A model of krabsetw's GUID code: krabs::guid and krabs::guid_parser     *)
(* (src/krabs/krabs/guid.hpp) and EventRecordMetadata::GetContainerId      *)
(* (src/Microsoft.O365.Security.Native.ETW/EventRecordMetadata.hpp).       *)
(*                                                                         *)
(* A byte is a number in 0..255.  A buffer (const char*, with what the     *)
(* caller allocated behind it) is a sequence of bytes; the C index i is    *)
(* the TLA+ index i + 1.  char is signed (MSVC): see AsChar.               *)
(***************************************************************************)
EXTENDS Integers, Sequences, FiniteSets, TLC

VARIABLES
    str,        \* parse_guid: the caller's buffer
    length,     \* parse_guid: the length argument
    op,         \* guid_parser: the function the caller calls on (str, length)
    ppc,        \* guid_parser: "ready" before the call, "done" after it
    presult,    \* guid_parser: what the call produced (see each function)
    ga, gb, gc, \* krabs::guid: three identifiers a client holds
    text,       \* krabs::guid: a std::wstring a client holds
    gop,        \* krabs::guid: what the client does with them
    gpc,        \* krabs::guid: the client's position
    gres,       \* krabs::guid: what the calls produced
    items,      \* GetContainerId: record_->ExtendedData[0 .. ExtendedDataCount)
    build,      \* GetContainerId: "debug" (assert compiled in) or "release" (NDEBUG)
    xi,         \* GetContainerId: the loop variable i
    xpc,        \* GetContainerId: "loop" at the loop test, "done" after the call
    examined,   \* GetContainerId: the indices i whose item has been read
    xres,       \* GetContainerId: how the call ended
    byte_output \* guid_parser: the caller's buffer hex_string_to_bytes writes to

pvars == <<str, length, op, ppc, presult, byte_output>>
gvars == <<ga, gb, gc, text, gop, gpc, gres>>
xvars == <<items, build, xi, xpc, examined, xres>>
vars == <<pvars, gvars, xvars>>

(***************************************************************************)
(* Machine arithmetic                                                      *)
(***************************************************************************)

RECURSIVE BitAnd(_, _)
\* a & b, for a, b >= 0
BitAnd(a, b) ==
    IF a = 0 \/ b = 0 THEN 0
    ELSE (IF a % 2 = 1 /\ b % 2 = 1 THEN 1 ELSE 0) + 2 * BitAnd(a \div 2, b \div 2)

RECURSIVE BitOr(_, _)
\* a | b, for a, b >= 0
BitOr(a, b) ==
    IF a = 0 THEN b
    ELSE IF b = 0 THEN a
    ELSE (IF a % 2 = 1 \/ b % 2 = 1 THEN 1 ELSE 0) + 2 * BitOr(a \div 2, b \div 2)

\* The value of the char (signed, 8 bits) stored in byte b.
AsChar(b) == IF b >= 128 THEN b - 256 ELSE b

\* str_input[i], where str_input points at C index off of buffer buf.  A read
\* outside what the caller allocated is outside what the model knows: it is
\* given the value 0 here and shows in the set of indices read.
CharAt(buf, off, i) ==
    IF off + i >= 0 /\ off + i < Len(buf) THEN AsChar(buf[off + i + 1]) ELSE 0

(***************************************************************************)
(* guid_parser: constants                                                  *)
(***************************************************************************)

UUID_STRING_LENGTH == 36

DELIMITER == 45   \* '-'

STR_POSITION_DATA1 == 0
STR_POSITION_DATA2 == 8 + 1
STR_POSITION_DATA3 == STR_POSITION_DATA2 + 4 + 1
STR_POSITION_DATA4_PART1 == STR_POSITION_DATA3 + 4 + 1
STR_POSITION_DATA4_PART2 == STR_POSITION_DATA4_PART1 + 4 + 1

(***************************************************************************)
(* guid_parser::hex_octet_to_byte(str_input, byte_output), str_input being *)
(* buf + off.  ok is the return value, byte is byte_output after the call  *)
(* (byte_in when nothing was stored), reads the C indices of buf read.     *)
(***************************************************************************)

\* NibbleOf with the letter ranges one too wide ('A'..'G', 'a'..'g')
NibbleOf_WideRange(c) ==
    IF c >= 48 /\ c <= 57
    THEN BitAnd(c, 15)
    ELSE IF (c >= 65 /\ c <= 71) \/ (c >= 97 /\ c <= 103)
    THEN BitAnd(c, 15) + 9
    ELSE -1

\* the nibble of a digit accepted by one of the two branches, -1 for `return false`
NibbleOf(c) ==
    IF c >= 48 /\ c <= 57                                      \* '0'..'9'
    THEN BitAnd(c, 15)
    ELSE IF (c >= 65 /\ c <= 70) \/ (c >= 97 /\ c <= 102)      \* 'A'..'F', 'a'..'f'
    THEN BitAnd(c, 15) + 9
    ELSE -1

\* hex_octet_to_byte looking at a third character
hex_octet_to_byte_ReadsThree(buf, off, byte_in) ==
    LET hi == NibbleOf(CharAt(buf, off, 0))
        lo == NibbleOf(CharAt(buf, off, 1))
        rd == {off, off + 1, off + 2}
    IN  IF hi < 0 \/ lo < 0 THEN [ok |-> FALSE, byte |-> byte_in, reads |-> rd]
        ELSE [ok |-> TRUE, byte |-> BitOr(hi * 16, lo) % 256, reads |-> rd]

hex_octet_to_byte(buf, off, byte_in) ==
    LET msd == CharAt(buf, off, 0)
        lsd == CharAt(buf, off, 1)
        rd  == {off, off + 1}
        hi  == NibbleOf(msd)
        lo  == NibbleOf(lsd)
    IN  IF hi < 0 THEN [ok |-> FALSE, byte |-> byte_in, reads |-> rd]
        ELSE IF lo < 0 THEN [ok |-> FALSE, byte |-> byte_in, reads |-> rd]
        ELSE LET value == BitOr(BitOr(0, hi * 16), lo)
             IN  [ok |-> TRUE, byte |-> value % 256, reads |-> rd]

(***************************************************************************)
(* guid_parser::hex_string_to_number<T>(str_input, int_output), with       *)
(* sizeofT = sizeof(T).  value is int_output after the call.               *)
(*                                                                         *)
(* TLC's integers have 32 bits with a sign, so an unsigned 32-bit number   *)
(* is held as its halves <<hi, lo>>, each in 0..65535: the number is       *)
(* hi * 65536 + lo.  An unsigned short is <<0, lo>>.                       *)
(***************************************************************************)

\* ShiftLeft8Or losing the bits shifted out of the low half
ShiftLeft8Or_NoCarry(value, byte) ==
    << (value[1] * 256) % 65536, BitOr((value[2] * 256) % 65536, byte) >>

\* (value << 8) | byte, computed in 32 bits
ShiftLeft8Or(value, byte) ==
    << ((value[1] * 256) % 65536) + (value[2] \div 256),
       BitOr((value[2] * 256) % 65536, byte) >>

\* the conversion of a 32-bit number to T on assignment
NarrowTo(value, sizeofT) ==
    IF sizeofT >= 4 THEN value ELSE << 0, value[2] % (2 ^ (8 * sizeofT)) >>

RECURSIVE NumberLoop(_, _, _, _, _, _)
\* the for loop from i on, with the local `value` and the reads so far
NumberLoop(buf, off, sizeofT, i, value, rd) ==
    IF i >= sizeofT THEN [ok |-> TRUE, value |-> value, reads |-> rd]
    ELSE LET o == hex_octet_to_byte(buf, off + i * 2, 0)
         IN  IF ~o.ok THEN [ok |-> FALSE, value |-> value, reads |-> rd \cup o.reads]
             ELSE NumberLoop(buf, off, sizeofT, i + 1,
                             NarrowTo(ShiftLeft8Or(value, o.byte), sizeofT),
                             rd \cup o.reads)

hex_string_to_number(buf, off, sizeofT, int_in) ==
    LET r == NumberLoop(buf, off, sizeofT, 0, <<0, 0>>, {})
    IN  [ok |-> r.ok, value |-> IF r.ok THEN r.value ELSE int_in, reads |-> r.reads]

(***************************************************************************)
(* guid_parser::hex_string_to_bytes(str_input, byte_output, byte_count).   *)
(* out_in is the caller's byte_output[0 .. byte_count) before the call,    *)
(* out the same bytes after it.                                            *)
(***************************************************************************)

RECURSIVE BytesLoop(_, _, _, _, _, _)
BytesLoop(buf, off, byte_count, i, out, rd) ==
    IF i >= byte_count THEN [ok |-> TRUE, out |-> out, reads |-> rd]
    ELSE LET o == hex_octet_to_byte(buf, off + i * 2, out[i + 1])
         IN  IF ~o.ok THEN [ok |-> FALSE, out |-> out, reads |-> rd \cup o.reads]
             ELSE BytesLoop(buf, off, byte_count, i + 1,
                            [out EXCEPT ![i + 1] = o.byte], rd \cup o.reads)

hex_string_to_bytes(buf, off, out_in, byte_count) ==
    BytesLoop(buf, off, byte_count, 0, out_in, {})

(***************************************************************************)
(* GUID: { unsigned long Data1; unsigned short Data2, Data3;               *)
(*         unsigned char Data4[8]; }                                       *)
(***************************************************************************)

\* Data1 is held as its halves <<hi, lo>>, Data2 and Data3 as numbers
ZeroGuid == [Data1 |-> <<0, 0>>, Data2 |-> 0, Data3 |-> 0, Data4 |-> [k \in 1..8 |-> 0]]

\* what a call that threw returns in place of a GUID
NoGuid == <<>>

\* no call made yet
NoResult == [kind |-> "none"]

(***************************************************************************)
(* guid_parser::parse_guid(str, length).  kind is "guid" for a return and  *)
(* "error" for a throw of std::runtime_error, what names the throw:        *)
(* "length" (Input data has incorrect length), "hyphen" (Missing a hyphen  *)
(* where one was expected), "nonhex" (GUID string contains non-hex digits  *)
(* where hex digits are expected).                                         *)
(***************************************************************************)

\* the || chain of the four delimiter tests: stops at the first that is true
RECURSIVE HyphenCheck(_, _, _)
HyphenCheck(buf, positions, rd) ==
    IF positions = <<>> THEN [ok |-> TRUE, reads |-> rd]
    ELSE LET p == Head(positions)
         IN  IF CharAt(buf, p, 0) # DELIMITER
             THEN [ok |-> FALSE, reads |-> rd \cup {p}]
             ELSE HyphenCheck(buf, Tail(positions), rd \cup {p})

HyphenPositions ==
    << STR_POSITION_DATA2 - 1, STR_POSITION_DATA3 - 1,
       STR_POSITION_DATA4_PART1 - 1, STR_POSITION_DATA4_PART2 - 1 >>

\* One operand of the && chain, a call of hex_string_to_number on a field of the
\* local guid: not evaluated once an earlier operand was false.  st is the
\* chain so far: its value, the local guid, the indices read.
StoreNumber(st, field, r) ==
    [ok    |-> r.ok,
     guid  |-> IF ~r.ok THEN st.guid
               ELSE IF field = "Data1" THEN [st.guid EXCEPT !.Data1 = r.value]
               ELSE [st.guid EXCEPT ![field] = r.value[2]],
     reads |-> st.reads \cup r.reads]

AndNumber(st, buf, off, sizeofT, field) ==
    IF ~st.ok THEN st
    ELSE StoreNumber(st, field, hex_string_to_number(buf, off, sizeofT, <<0, 0>>))

\* One operand of the && chain, a call of hex_string_to_bytes on
\* &guid.Data4[base]: the bytes it stored stay stored when it returns false.
StoreBytes(st, base, byte_count, r) ==
    [ok    |-> r.ok,
     guid  |-> [st.guid EXCEPT !.Data4 =
                   [k \in 1..8 |-> IF k > base /\ k <= base + byte_count
                                   THEN r.out[k - base] ELSE st.guid.Data4[k]]],
     reads |-> st.reads \cup r.reads]

AndBytes(st, buf, off, base, byte_count) ==
    IF ~st.ok THEN st
    ELSE StoreBytes(st, base, byte_count,
                    hex_string_to_bytes(buf, off,
                        [k \in 1..byte_count |-> st.guid.Data4[base + k]], byte_count))

\* GUID guid = { 0 }; bool success = ... && ... && ... && ... && ...;
DecodeFields(buf) ==
    AndBytes(
        AndBytes(
            AndNumber(
                AndNumber(
                    AndNumber([ok |-> TRUE, guid |-> ZeroGuid, reads |-> {}],
                              buf, STR_POSITION_DATA1, 4, "Data1"),
                    buf, STR_POSITION_DATA2, 2, "Data2"),
                buf, STR_POSITION_DATA3, 2, "Data3"),
            buf, STR_POSITION_DATA4_PART1, 0, 2),
        buf, STR_POSITION_DATA4_PART2, 2, 6)

Thrown(what, rd) == [kind |-> "error", what |-> what, guid |-> NoGuid, reads |-> rd]

AfterDecode(h, d) ==
    IF ~d.ok THEN Thrown("nonhex", h.reads \cup d.reads)
    ELSE [kind |-> "guid", what |-> "", guid |-> d.guid, reads |-> h.reads \cup d.reads]

AfterHyphenCheck(buf, h) ==
    IF ~h.ok THEN Thrown("hyphen", h.reads) ELSE AfterDecode(h, DecodeFields(buf))

\* parse_guid rejecting only the lengths below 36
parse_guid_ShortOnly(buf, len) ==
    IF len < UUID_STRING_LENGTH THEN Thrown("length", {})
    ELSE AfterHyphenCheck(buf, HyphenCheck(buf, HyphenPositions, {}))

parse_guid(buf, len) ==
    IF len # UUID_STRING_LENGTH THEN Thrown("length", {})
    ELSE AfterHyphenCheck(buf, HyphenCheck(buf, HyphenPositions, {}))

(***************************************************************************)
(* The canonical text form, stated apart from the parser                   *)
(***************************************************************************)

\* '0'..'9', 'A'..'F', 'a'..'f'
HexDigitChars == (48..57) \cup (65..70) \cup (97..102)

\* the 1-based places of the four hyphens: C indices 8, 13, 18, 23
HyphenPlaces == {9, 14, 19, 24}

IsCanonicalText(s) ==
    /\ Len(s) >= 36
    /\ \A k \in 1..36 : IF k \in HyphenPlaces THEN s[k] = 45 ELSE s[k] \in HexDigitChars

\* the value of a hex digit, by table
HexValue(c) ==
    CASE c \in 48..57  -> c - 48
      [] c \in 65..70  -> c - 55
      [] c \in 97..102 -> c - 87

\* the number written by the two digits at C indices i, i + 1
OctetValue(s, i) == 16 * HexValue(s[i + 1]) + HexValue(s[i + 2])

\* the number written by the four digits at C indices i .. i + 3
QuadValue(s, i) == 256 * OctetValue(s, i) + OctetValue(s, i + 2)

\* the identifier a canonical text denotes
DenotedGuid(s) ==
    [Data1 |-> << QuadValue(s, 0), QuadValue(s, 4) >>,
     Data2 |-> QuadValue(s, 9),
     Data3 |-> QuadValue(s, 14),
     Data4 |-> << OctetValue(s, 19), OctetValue(s, 21), OctetValue(s, 24), OctetValue(s, 26),
                  OctetValue(s, 28), OctetValue(s, 30), OctetValue(s, 32), OctetValue(s, 34) >>]

UpperText(s) == [k \in 1..Len(s) |-> IF s[k] \in 97..122 THEN s[k] - 32 ELSE s[k]]
LowerText(s) == [k \in 1..Len(s) |-> IF s[k] \in 65..90 THEN s[k] + 32 ELSE s[k]]

(***************************************************************************)
(* krabs::guid.  The class holds one GUID, guid_; its comparisons are      *)
(* memcmp over the 16 bytes of the object, and its conversions to and from *)
(* text are the platform's StringFromCLSID and CLSIDFromString, which are  *)
(* modelled by their documented contract: StringFromCLSID writes           *)
(* {XXXXXXXX-XXXX-XXXX-XXXX-XXXXXXXXXXXX} with upper-case digits, and      *)
(* CLSIDFromString accepts a NUL-terminated string of that form with       *)
(* digits of either case and fails (CO_E_CLASSSTRING) on any other string  *)
(* that starts with '{'.  A string that does not start with '{' is looked  *)
(* up as a ProgID; no class is registered under a ProgID here.             *)
(***************************************************************************)

\* the 16 bytes of a GUID object (little-endian Data1, Data2, Data3)
GuidBytes(g) ==
    << g.Data1[2] % 256, g.Data1[2] \div 256, g.Data1[1] % 256, g.Data1[1] \div 256,
       g.Data2 % 256, g.Data2 \div 256, g.Data3 % 256, g.Data3 \div 256 >> \o g.Data4

\* guid::guid(GUID): the identifier whose object holds the 16 bytes v
GuidOfBytes(v) ==
    [Data1 |-> << v[3] + 256 * v[4], v[1] + 256 * v[2] >>,
     Data2 |-> v[5] + 256 * v[6],
     Data3 |-> v[7] + 256 * v[8],
     Data4 |-> [k \in 1..8 |-> v[8 + k]]]

\* memcmp(x, y, n) from byte k on: the sign of the first difference, the
\* bytes taken as unsigned char
RECURSIVE memcmp(_, _, _, _)
memcmp(x, y, k, n) ==
    IF k > n THEN 0
    ELSE IF x[k] # y[k] THEN (IF x[k] < y[k] THEN -1 ELSE 1)
    ELSE memcmp(x, y, k + 1, n)

\* bool guid::operator==(const guid &rhs) const
OperatorEq(a, b) == 0 = memcmp(GuidBytes(a), GuidBytes(b), 1, 16)

\* operator< comparing field by field, each field as a number
OperatorLess_ByFields(a, b) ==
    LET ka == << a.Data1[1], a.Data1[2], a.Data2, a.Data3 >> \o a.Data4
        kb == << b.Data1[1], b.Data1[2], b.Data2, b.Data3 >> \o b.Data4
    IN  memcmp(ka, kb, 1, 12) < 0

\* bool guid::operator<(const guid &rhs) const
OperatorLess(a, b) == memcmp(GuidBytes(a), GuidBytes(b), 1, 16) < 0

\* an upper-case hex digit
UpperHexDigit(n) == IF n < 10 THEN 48 + n ELSE 55 + n

\* %02X, %04X
Hex2(b) == << UpperHexDigit(b \div 16), UpperHexDigit(b % 16) >>
Hex4(n) == Hex2(n \div 256) \o Hex2(n % 256)

\* StringFromCLSID losing the braces
StringFromCLSID_NoBraces(g) ==
    Hex4(g.Data1[1]) \o Hex4(g.Data1[2]) \o <<45>> \o Hex4(g.Data2) \o <<45>>
        \o Hex4(g.Data3) \o <<45>> \o Hex2(g.Data4[1]) \o Hex2(g.Data4[2]) \o <<45>>
        \o Hex2(g.Data4[3]) \o Hex2(g.Data4[4]) \o Hex2(g.Data4[5])
        \o Hex2(g.Data4[6]) \o Hex2(g.Data4[7]) \o Hex2(g.Data4[8])

\* StringFromCLSID(guid, &guidString): the string it allocates
StringFromCLSID(g) ==
    <<123>> \o Hex4(g.Data1[1]) \o Hex4(g.Data1[2]) \o <<45>> \o Hex4(g.Data2) \o <<45>>
        \o Hex4(g.Data3) \o <<45>> \o Hex2(g.Data4[1]) \o Hex2(g.Data4[2]) \o <<45>>
        \o Hex2(g.Data4[3]) \o Hex2(g.Data4[4]) \o Hex2(g.Data4[5])
        \o Hex2(g.Data4[6]) \o Hex2(g.Data4[7]) \o Hex2(g.Data4[8]) \o <<125>>

\* std::to_wstring(const krabs::guid&)
to_wstring(g) == StringFromCLSID(g)

\* the string a const wchar_t* points at: the characters before the first NUL
RECURSIVE UpToNul(_)
UpToNul(ws) ==
    IF ws = <<>> \/ Head(ws) = 0 THEN <<>> ELSE <<Head(ws)>> \o UpToNul(Tail(ws))

\* CLSIDFromString(lpsz, &clsid): the HRESULT and the CLSID stored
CLSIDFromString(lpsz) ==
    LET s == UpToNul(lpsz)
    IN  IF /\ Len(s) = 38 /\ s[1] = 123 /\ s[38] = 125
           /\ IsCanonicalText([k \in 1..36 |-> s[k + 1]])
        THEN [hr |-> "S_OK", guid |-> DenotedGuid([k \in 1..36 |-> s[k + 1]])]
        ELSE [hr |-> "CO_E_CLASSSTRING", guid |-> ZeroGuid]

\* guid::guid(const std::wstring &guid): the object built, or the
\* std::runtime_error thrown with the string and the HRESULT in its message
StoreOrThrow(ws, r) ==
    IF r.hr # "S_OK"
    THEN [kind |-> "error", hr |-> r.hr, text |-> ws, guid |-> NoGuid]
    ELSE [kind |-> "guid", hr |-> r.hr, text |-> <<>>, guid |-> r.guid]

guid_from_wstring(ws) == StoreOrThrow(ws, CLSIDFromString(ws))

(***************************************************************************)
(* EventRecordMetadata::GetContainerId.  An extended data item is          *)
(* [ExtType, DataSize, Data]: Data is the DataSize bytes DataPtr points    *)
(* at.  The call ends in one of: "none" (the null Nullable), "guid", "error" *)
(* (ContainerIdFormatException thrown, with the error code and the data of *)
(* its message), "abort" (the assert failed), "crash" (a read of memory    *)
(* that is not mapped).                                                    *)
(***************************************************************************)

CONTAINER_ID_DATA_LENGTH_IN_BYTES == 36

\* (wchar_t) of a char: a negative char is sign-extended
WideOf(c) == IF c < 0 THEN c + 65536 ELSE c

\* the copy loop filling the buffer from its second place
CopyLoop_FromFirst(data) ==
    [c \in 1..(CONTAINER_ID_DATA_LENGTH_IN_BYTES + 3) |->
        IF c <= CONTAINER_ID_DATA_LENGTH_IN_BYTES THEN WideOf(AsChar(data[c]))
        ELSE IF c = 37 THEN 48 ELSE IF c = 38 THEN 125 ELSE 0]

\* guid_string_buffer after the copy loop, data being the 36 bytes at
\* DataPtr[0 .. 36): L"{", the 36 characters, L"}", NUL
CopyLoop(data) ==
    [c \in 1..(1 + CONTAINER_ID_DATA_LENGTH_IN_BYTES + 2) |->
        IF c = 1 THEN 123
        ELSE IF c <= 1 + CONTAINER_ID_DATA_LENGTH_IN_BYTES THEN WideOf(AsChar(data[c - 1]))
        ELSE IF c = 2 + CONTAINER_ID_DATA_LENGTH_IN_BYTES THEN 125
        ELSE 0]

\* ConvertGuid(container_guid): the System::Guid of the same fields
ConvertGuid(g) == g

\* from CLSIDFromString on: the Nullable returned or the exception thrown
ReturnOrThrow(buffer, r) ==
    IF r.hr # "S_OK"
    THEN [kind |-> "error", errorCode |-> r.hr, data |-> UpToNul(buffer), guid |-> NoGuid]
    ELSE [kind |-> "guid", errorCode |-> r.hr, data |-> <<>>, guid |-> ConvertGuid(r.guid)]

ParseBuffer(buffer) == ReturnOrThrow(buffer, CLSIDFromString(buffer))

\* The 36 bytes the copy loop reads at DataPtr: those of the item and, when the
\* item is shorter, what lies behind it (beyond).
BytesAt(item, beyond) ==
    [c \in 1..CONTAINER_ID_DATA_LENGTH_IN_BYTES |->
        IF c <= item.DataSize THEN item.Data[c] ELSE beyond.bytes[c - item.DataSize]]

\* the body of `if (extended_data.ExtType == EVENT_HEADER_EXT_TYPE_CONTAINER_ID)`,
\* given what lies in memory behind the item's bytes (beyond.mapped: whether
\* there is memory there at all; beyond.bytes: what it holds)
ExtractFrom(item, bld, beyond) ==
    IF bld = "debug" /\ item.DataSize # CONTAINER_ID_DATA_LENGTH_IN_BYTES
    THEN [kind |-> "abort", reads |-> {}]
    ELSE IF item.DataSize < CONTAINER_ID_DATA_LENGTH_IN_BYTES /\ ~beyond.mapped
    THEN [kind |-> "crash", reads |-> 0..item.DataSize]
    ELSE [out |-> ParseBuffer(CopyLoop(BytesAt(item, beyond))),
          reads |-> 0..(CONTAINER_ID_DATA_LENGTH_IN_BYTES - 1)]

(***************************************************************************)
(* The callers of guid_parser: the inputs                                  *)
(***************************************************************************)

\* the number of characters of a well-formed text that a caller has replaced
MaxEdits == 1

\* the number of characters a caller's buffer holds past the 36 of a text
MaxExtra == 2

ZeroOneText ==      \* 00000000-0000-0000-0000-000000000001
    << 48, 48, 48, 48, 48, 48, 48, 48, 45, 48, 48, 48, 48, 45, 48, 48, 48, 48,
       45, 48, 48, 48, 48, 45, 48, 48, 48, 48, 48, 48, 48, 48, 48, 48, 48, 49 >>

MixedText ==        \* 01234567-89ab-cdef-ABCD-EF0123456789
    << 48, 49, 50, 51, 52, 53, 54, 55, 45, 56, 57, 97, 98, 45, 99, 100, 101, 102,
       45, 65, 66, 67, 68, 45, 69, 70, 48, 49, 50, 51, 52, 53, 54, 55, 56, 57 >>

AllFText ==         \* FFFFFFFF-ffff-FFFF-ffff-FFFFFFFFFFFF
    << 70, 70, 70, 70, 70, 70, 70, 70, 45, 102, 102, 102, 102, 45, 70, 70, 70, 70,
       45, 102, 102, 102, 102, 45, 70, 70, 70, 70, 70, 70, 70, 70, 70, 70, 70, 70 >>

AlternatingText ==  \* a1B2c3D4-e5F6-7a8b-9C0d-1E2f3A4b5C6d
    << 97, 49, 66, 50, 99, 51, 68, 52, 45, 101, 53, 70, 54, 45, 55, 97, 56, 98,
       45, 57, 67, 48, 100, 45, 49, 69, 50, 102, 51, 65, 52, 98, 53, 67, 54, 100 >>

Templates == {ZeroOneText, MixedText, AllFText, AlternatingText}

\* The bytes a caller writes over a character: NUL, '-', the ends of the
\* accepted ranges and their neighbours ('/' '0' ':' '@' 'F' 'G' '`' 'f' 'g'),
\* and a byte with the top bit set ('0' + 128).
EditChars == {0, 45, 47, 48, 58, 64, 70, 71, 96, 102, 103, 176}

RECURSIVE Edited(_)
\* MixedText with at most n characters replaced
Edited(n) ==
    IF n = 0 THEN {MixedText}
    ELSE LET prev == Edited(n - 1)
         IN  prev \cup { [s EXCEPT ![p] = c] : s \in prev, p \in 1..36, c \in EditChars }

EditedTexts == Edited(MaxEdits)

\* the templates, and those with the first, the ninth or the last character replaced
FewEdits ==
    Templates \cup { [s EXCEPT ![p] = c] : s \in Templates, p \in {1, 9, 36}, c \in EditChars }

Take(s, n) == [k \in 1..n |-> s[k]]

\* what lies in the buffer behind a text: k copies of one byte
Pads == { [k \in 1..n |-> c] : n \in 1..MaxExtra, c \in {0, 48, 45} }

\* the 2-character buffers handed to hex_octet_to_byte, and the same with one
\* more byte behind them
OctetChars == EditChars \cup {49, 57, 65, 66, 69, 97, 98, 101, 193}
OctetBuffers ==
    { <<a, b>> : a \in OctetChars, b \in OctetChars }
        \cup { <<a, b, 70>> : a \in {0, 57, 71}, b \in OctetChars }

InitParse ==
    /\ op = "parse_guid"
    /\ ppc = "ready"
    /\ presult = NoResult
    /\ byte_output = <<>>
    /\ \/ /\ str \in EditedTexts \cup FewEdits            \* 36 characters, length 36
          /\ length = 36
       \/ \E s \in FewEdits, n \in 0..35 :                 \* a text cut short
             str = Take(s, n) /\ length = n
       \/ \E s \in FewEdits, pad \in Pads :                \* a text and more
             str = s \o pad /\ length \in {36, Len(s \o pad)}

InitOctet ==
    /\ op = "hex_octet_to_byte"
    /\ ppc = "ready"
    /\ presult = NoResult
    /\ str \in OctetBuffers
    /\ length = 2
    /\ byte_output = <<>>

\* the octets of the runs handed to hex_string_to_bytes: "00", "AB", "ff" and
\* "7f" are hex octets, "G0" and "0g" are not
MaxOctets == 3
RunOctets == { <<48, 48>>, <<65, 66>>, <<102, 102>>, <<55, 102>>,
               <<71, 48>>, <<48, 103>> }

RECURSIVE HexRuns(_)
HexRuns(n) ==
    IF n = 0 THEN { <<>> }
    ELSE { r \o o : r \in HexRuns(n - 1), o \in RunOctets }

\* what the caller's byte_output holds before the call
BufferFills == {0, 170}

\* unsigned char out[byte_count]; the buffer holds earlier content, and
\* str_input has 2 * byte_count chars
InitBytes ==
    /\ op = "hex_string_to_bytes"
    /\ ppc = "ready"
    /\ presult = NoResult
    /\ \E n \in 0..MaxOctets, fill \in BufferFills :
          /\ str \in HexRuns(n)
          /\ length = n
          /\ byte_output = [k \in 1..n |-> fill]

\* no client of krabs::guid
GuidIdle ==
    /\ ga = ZeroGuid /\ gb = ZeroGuid /\ gc = ZeroGuid
    /\ text = <<>> /\ gop = "none" /\ gpc = "idle" /\ gres = NoResult

\* no call of GetContainerId
ExtractIdle ==
    /\ items = <<>> /\ build = "release" /\ xi = 0 /\ xpc = "idle"
    /\ examined = {} /\ xres = NoResult

Init == (InitParse \/ InitOctet \/ InitBytes) /\ GuidIdle /\ ExtractIdle

\* GUID g = guid_parser::parse_guid(str, length);
ParseGuid ==
    /\ op = "parse_guid" /\ ppc = "ready"
    /\ presult' = parse_guid(str, length)
    /\ ppc' = "done"
    /\ UNCHANGED <<str, length, op, byte_output, gvars, xvars>>

\* unsigned char b = 0; bool ok = guid_parser::hex_octet_to_byte(str, b);
HexOctetToByte ==
    /\ op = "hex_octet_to_byte" /\ ppc = "ready"
    /\ presult' = hex_octet_to_byte(str, 0, 0)
    /\ ppc' = "done"
    /\ UNCHANGED <<str, length, op, byte_output, gvars, xvars>>

\* the value of the call and the buffer it leaves; before is byte_output as
\* the caller handed it over
BytesCall(r, before) ==
    [ok |-> r.ok, out |-> r.out, reads |-> r.reads, before |-> before]

\* bool ok = guid_parser::hex_string_to_bytes(str, byte_output, length);
HexStringToBytes ==
    /\ op = "hex_string_to_bytes" /\ ppc = "ready"
    /\ presult' = BytesCall(hex_string_to_bytes(str, 0, byte_output, length),
                            byte_output)
    /\ byte_output' = presult'.out
    /\ ppc' = "done"
    /\ UNCHANGED <<str, length, op, gvars, xvars>>

Next == ParseGuid \/ HexOctetToByte \/ HexStringToBytes

Spec == Init /\ [][Next]_vars

(***************************************************************************)
(* The clients of krabs::guid: the inputs                                  *)
(***************************************************************************)

\* the number of bytes of an identifier's 16 that are not zero
MaxSetBytes == 1

\* the bytes set: the ends of Data1, the first bytes of Data2 and Data4, the
\* last byte; to 1 and to 128 (the top bit)
SetPositions == {1, 2, 4, 5, 9, 16}
SetValues == {1, 128}

RECURSIVE Vectors(_)
Vectors(n) ==
    IF n = 0 THEN { [k \in 1..16 |-> 0] }
    ELSE LET prev == Vectors(n - 1)
         IN  prev \cup { [v EXCEPT ![p] = x] : v \in prev, p \in SetPositions, x \in SetValues }

CompareGuids == { GuidOfBytes(v) : v \in Vectors(MaxSetBytes) }
ThirdGuids == { GuidOfBytes(v) : v \in Vectors(1) }

\* identifiers with one byte, any of the 16, set to 1, 0x0A, 0x80, 0xAB or 0xFF;
\* those the templates denote; the one of 16 bytes 0xFF
RoundTripGuids ==
    CompareGuids \cup { DenotedGuid(t) : t \in Templates }
        \cup { GuidOfBytes([k \in 1..16 |-> IF k = p THEN x ELSE 0]) :
                  p \in 1..16, x \in {1, 10, 128, 171, 255} }
        \cup { GuidOfBytes([k \in 1..16 |-> 255]) }

ZeroText ==         \* 00000000-0000-0000-0000-000000000000
    [k \in 1..36 |-> IF k \in HyphenPlaces THEN 45 ELSE 48]

Braced(t) == <<123>> \o t \o <<125>>

\* the strings a client builds an identifier from: texts with and without
\* braces, well-formed and not, and the empty string
ClientTexts ==
    FewEdits \cup { Braced(t) : t \in FewEdits } \cup {ZeroText, Braced(ZeroText), <<>>}

ParserIdle ==
    /\ str = <<>> /\ length = 0 /\ op = "none" /\ ppc = "idle" /\ presult = NoResult
    /\ byte_output = <<>>

InitCompare ==
    /\ gop = "compare" /\ gpc = "start"
    /\ ga \in CompareGuids /\ gb \in CompareGuids /\ gc \in ThirdGuids
    /\ text = <<>> /\ gres = NoResult

InitRoundTrip ==
    /\ gop = "roundtrip" /\ gpc = "start"
    /\ ga \in RoundTripGuids /\ gb = ZeroGuid /\ gc = ZeroGuid
    /\ text = <<>> /\ gres = NoResult

InitFromText ==
    /\ gop = "fromtext" /\ gpc = "encoded"
    /\ ga = ZeroGuid /\ gb = ZeroGuid /\ gc = ZeroGuid
    /\ text \in ClientTexts /\ gres = NoResult

InitGuid == (InitCompare \/ InitRoundTrip \/ InitFromText) /\ ParserIdle /\ ExtractIdle

\* bool e = (a == b);
EqualTo ==
    /\ gop = "compare" /\ gpc = "start"
    /\ gres' = [kind |-> "compared", eq |-> OperatorEq(ga, gb)]
    /\ gpc' = "eq"
    /\ UNCHANGED <<ga, gb, gc, text, gop, pvars, xvars>>

\* the five results of a < b, b < a, b < c, a < c, a < a
LessThan ==
    /\ gop = "compare" /\ gpc = "eq"
    /\ gres' = [kind |-> "compared", eq |-> gres.eq,
                ab |-> OperatorLess(ga, gb), ba |-> OperatorLess(gb, ga),
                bc |-> OperatorLess(gb, gc), ac |-> OperatorLess(ga, gc),
                aa |-> OperatorLess(ga, ga)]
    /\ gpc' = "done"
    /\ UNCHANGED <<ga, gb, gc, text, gop, pvars, xvars>>

\* std::wstring text = std::to_wstring(a);
ToWString ==
    /\ gop = "roundtrip" /\ gpc = "start"
    /\ text' = to_wstring(ga)
    /\ gpc' = "encoded"
    /\ UNCHANGED <<ga, gb, gc, gop, gres, pvars, xvars>>

\* krabs::guid g(text);
FromWString ==
    /\ gop \in {"roundtrip", "fromtext"} /\ gpc = "encoded"
    /\ gres' = guid_from_wstring(text)
    /\ gpc' = "done"
    /\ UNCHANGED <<ga, gb, gc, text, gop, pvars, xvars>>

NextGuid == EqualTo \/ LessThan \/ ToWString \/ FromWString

SpecGuid == InitGuid /\ [][NextGuid]_vars

(***************************************************************************)
(* The callers of GetContainerId: the records                              *)
(***************************************************************************)

\* the number of extended data items of a record
MaxItems == 3

Item(type, data) == [ExtType |-> type, DataSize |-> Len(data), Data |-> data]

ContainerId == "EVENT_HEADER_EXT_TYPE_CONTAINER_ID"

\* the items of the records with several items
ItemChoices ==
    { Item("EVENT_HEADER_EXT_TYPE_SID", <<1, 5, 0, 0>>),
      Item("EVENT_HEADER_EXT_TYPE_RELATED_ACTIVITYID", ZeroOneText),
      Item(ContainerId, ZeroOneText),
      Item(ContainerId, MixedText),
      Item(ContainerId, [MixedText EXCEPT ![1] = 71]),       \* 'G' for a digit
      Item(ContainerId, [MixedText EXCEPT ![9] = 48]),       \* '0' for a hyphen
      Item(ContainerId, [ZeroOneText EXCEPT ![5] = 0]),      \* NUL for a digit
      Item(ContainerId, Take(ZeroOneText, 35)),
      Item(ContainerId, ZeroOneText \o <<48>>),
      Item(ContainerId, <<>>) }

\* the container-id items of the records with one item
SingleItems ==
    { Item(ContainerId, t) : t \in FewEdits }
        \cup { Item(ContainerId, Take(t, n)) : t \in Templates, n \in {0, 1, 8, 24, 35} }

RECURSIVE Records(_)
\* the sequences of at most n items
Records(n) ==
    IF n = 0 THEN { <<>> }
    ELSE LET prev == Records(n - 1)
         IN  prev \cup { Append(r, it) : r \in {q \in prev : Len(q) = n - 1}, it \in ItemChoices }

\* What the copy loop may find behind an item n bytes too short: no memory, n
\* NUL bytes, or the last n characters of a text.
BeyondChoices(n) ==
    IF n <= 0 THEN { [mapped |-> TRUE, bytes |-> <<>>] }
    ELSE { [mapped |-> FALSE, bytes |-> <<>>] }
             \cup { [mapped |-> TRUE, bytes |-> [k \in 1..n |-> t[36 - n + k]]] :
                       t \in {ZeroOneText, [k \in 1..36 |-> 0]} }

\* how the call ends, with the indices of the item's bytes it read
Outcome(r) ==
    IF "out" \in DOMAIN r
    THEN [kind |-> r.out.kind, errorCode |-> r.out.errorCode,
          data |-> r.out.data, guid |-> r.out.guid, reads |-> r.reads]
    ELSE r

InitExtract ==
    /\ items \in Records(MaxItems) \cup { <<it>> : it \in SingleItems }
    /\ build \in {"debug", "release"}
    /\ xi = 0 /\ xpc = "loop" /\ examined = {} /\ xres = NoResult
    /\ ParserIdle /\ GuidIdle

\* i < extended_data_count is false: return System::Nullable<System::Guid>()
ReturnNull ==
    /\ xpc = "loop" /\ xi >= Len(items)
    /\ xres' = [kind |-> "none", reads |-> {}]
    /\ xpc' = "done"
    /\ UNCHANGED <<items, build, xi, examined, pvars, gvars>>

\* the item at i has another ExtType: i++
SkipItem ==
    /\ xpc = "loop" /\ xi < Len(items)
    /\ items[xi + 1].ExtType # ContainerId
    /\ examined' = examined \cup {xi}
    /\ xi' = xi + 1
    /\ UNCHANGED <<items, build, xpc, xres, pvars, gvars>>

\* ExtractItem going on to a later container-id item when there is one
ExtractItem_LastMatch ==
    /\ xpc = "loop" /\ xi < Len(items)
    /\ items[xi + 1].ExtType = ContainerId
    /\ examined' = examined \cup {xi}
    /\ IF \E j \in (xi + 2)..Len(items) : items[j].ExtType = ContainerId
       THEN xi' = xi + 1 /\ UNCHANGED <<xpc, xres>>
       ELSE /\ \E beyond \in BeyondChoices(CONTAINER_ID_DATA_LENGTH_IN_BYTES
                                              - items[xi + 1].DataSize) :
                  xres' = Outcome(ExtractFrom(items[xi + 1], build, beyond))
            /\ xpc' = "done" /\ xi' = xi
    /\ UNCHANGED <<items, build, pvars, gvars>>

\* the item at i is a container id: assert, copy, CLSIDFromString, return or throw
ExtractItem ==
    /\ xpc = "loop" /\ xi < Len(items)
    /\ items[xi + 1].ExtType = ContainerId
    /\ examined' = examined \cup {xi}
    /\ \E beyond \in BeyondChoices(CONTAINER_ID_DATA_LENGTH_IN_BYTES - items[xi + 1].DataSize) :
          xres' = Outcome(ExtractFrom(items[xi + 1], build, beyond))
    /\ xpc' = "done"
    /\ UNCHANGED <<items, build, xi, pvars, gvars>>

NextExtract == ReturnNull \/ SkipItem \/ ExtractItem

SpecExtract == InitExtract /\ [][NextExtract]_vars

ParseDone == op = "parse_guid" /\ ppc = "done"

(***************************************************************************)
(* Claims about guid_parser                                                *)
(***************************************************************************)

\* C1: parse_guid(str, length) with length other than 36 throws the length
\* error whatever str holds, and has read no character of str by then (the
\* length test comes before every hyphen and hex-digit test).
C1_LengthRejected ==
    (ParseDone /\ length # 36) =>
        /\ presult.kind = "error" /\ presult.what = "length"
        /\ presult.reads = {}

\* a well-formed text followed by one more character, length 37, was rejected
C1_Witness ==
    /\ ParseDone /\ length = 37 /\ Len(str) = 37
    /\ IsCanonicalText(str)
    /\ presult.kind = "error" /\ presult.what = "length"

\* C2: with length 36, parse_guid returns an identifier exactly when the four
\* hyphen places hold '-' and the other 32 places hold hex digits; every
\* other text of length 36 throws one of the two format errors.
C2_AcceptsExactlyCanonical ==
    (ParseDone /\ length = 36) =>
        /\ (presult.kind = "guid") <=> IsCanonicalText(str)
        /\ ~IsCanonicalText(str) =>
               /\ presult.kind = "error"
               /\ presult.what \in {"hyphen", "nonhex"}
               /\ presult.guid = NoGuid
        /\ (presult.what = "hyphen") <=> (\E k \in HyphenPlaces : str[k] # 45)

\* a digit of a well-formed text was replaced by a hyphen: a format error
C2_Witness ==
    /\ ParseDone /\ length = 36
    /\ \E k \in (1..36) \ HyphenPlaces : str = [MixedText EXCEPT ![k] = 45]
    /\ presult.kind = "error" /\ presult.what = "nonhex"

\* C3: for a well-formed text parse_guid returns the identifier whose Data1,
\* Data2, Data3 are the numbers written (most significant digit first) at
\* [0,8), [9,13), [14,18) and whose Data4 is the octets at [19,23) and [24,36)
\* in text order; the case of the hex letters does not matter.
C3_DecodedFields ==
    (ParseDone /\ length = 36 /\ IsCanonicalText(str)) =>
        /\ presult.kind = "guid"
        /\ presult.guid = DenotedGuid(str)
        /\ parse_guid(UpperText(str), 36).guid = presult.guid
        /\ parse_guid(LowerText(str), 36).guid = presult.guid

\* 01234567-89ab-cdef-ABCD-EF0123456789 was parsed, to the fields written out
C3_Witness ==
    /\ ParseDone /\ str = MixedText /\ length = 36
    /\ presult.kind = "guid"
    /\ presult.guid.Data1 = <<291, 17767>>          \* 0x0123, 0x4567
    /\ presult.guid.Data2 = 35243                    \* 0x89ab
    /\ presult.guid.Data3 = 52719                    \* 0xcdef
    /\ presult.guid.Data4 = <<171, 205, 239, 1, 35, 69, 103, 137>>

\* C10: parse_guid(str, length) reads only C indices in [0, length): none when
\* length is not 36, all of 0..35 and nothing else when it returns an
\* identifier, whatever lies in the buffer behind them; hex_octet_to_byte
\* reads the two characters it is given and no other; a NUL character in the
\* text is a character that is neither a hyphen nor a hex digit (a format
\* error), not an end of the text.
C10_ReadsWithinLength ==
    /\ ParseDone =>
          /\ presult.reads \subseteq 0..(length - 1)
          /\ length # 36 => presult.reads = {}
          /\ presult.kind = "guid" => presult.reads = 0..35
          /\ (length = 36 /\ \E k \in 1..36 : str[k] = 0) =>
                 /\ presult.kind = "error"
                 /\ presult.what \in {"hyphen", "nonhex"}
                 /\ {j \in HyphenPlaces : j - 1 \in presult.reads} # {}
    /\ (op = "hex_octet_to_byte" /\ ppc = "done") => presult.reads = {0, 1}

\* the first character is NUL, the buffer is longer than the text: the parser
\* went on to the hyphens behind the NUL and stopped at the octet holding it
C10_Witness ==
    /\ ParseDone /\ length = 36 /\ Len(str) > 36
    /\ str[1] = 0
    /\ presult.kind = "error" /\ presult.what = "nonhex"
    /\ presult.reads = {0, 1, 8, 13, 18, 23}

(***************************************************************************)
(* Claims about krabs::guid                                                *)
(***************************************************************************)

LexLess(x, y) ==
    \E k \in 1..16 : (\A j \in 1..(k - 1) : x[j] = y[j]) /\ x[k] < y[k]

\* C5: a == b exactly when the 16 bytes are equal, a < b exactly when a's
\* bytes come first lexicographically; exactly one of a < b, a == b, b < a
\* holds, and < is irreflexive and transitive.
C5_BytewiseTotalOrder ==
    /\ (gop = "compare" /\ gpc \in {"eq", "done"}) =>
           (gres.eq <=> \A k \in 1..16 : GuidBytes(ga)[k] = GuidBytes(gb)[k])
    /\ (gop = "compare" /\ gpc = "done") =>
           /\ gres.ab <=> LexLess(GuidBytes(ga), GuidBytes(gb))
           /\ gres.ba <=> LexLess(GuidBytes(gb), GuidBytes(ga))
           /\ Cardinality({r \in {"ab", "eq", "ba"} : gres[r]}) = 1
           /\ ~gres.aa
           /\ (gres.ab /\ gres.bc) => gres.ac

\* Data1 of a is 0x100 and of b is 0x1: a < b, by the bytes 00 01 .. and 01 00 ..
C5_Witness ==
    /\ gop = "compare" /\ gpc = "done"
    /\ ga.Data1 = <<0, 256>> /\ gb.Data1 = <<0, 1>>
    /\ gres.ab /\ ~gres.ba /\ ~gres.eq

(***************************************************************************)
(* Claims about GetContainerId                                             *)
(***************************************************************************)

\* the indices (from 0) of the container-id items, and the first of them
Tagged == { k \in 0..(Len(items) - 1) : items[k + 1].ExtType = ContainerId }
FirstTagged == CHOOSE k \in Tagged : \A j \in Tagged : k <= j
FirstItem == items[FirstTagged + 1]

\* every way the call can end on a container-id item alone
OutcomesOf(item, bld) ==
    { Outcome(ExtractFrom(item, bld, beyond)) :
        beyond \in BeyondChoices(CONTAINER_ID_DATA_LENGTH_IN_BYTES - item.DataSize) }

\* C6: the items are read in index order; with no container-id item every
\* item is read and the call returns null, no error; otherwise the items up
\* to the first container-id item are read and no later one, the call does
\* not return null, and it ends as it would on that item alone.
C6_FirstMatchOnly ==
    /\ xpc = "loop" => examined = 0..(xi - 1)
    /\ Tagged # {} => examined \subseteq 0..FirstTagged
    /\ (xpc = "done" /\ Tagged = {}) =>
           /\ xres.kind = "none"
           /\ examined = 0..(Len(items) - 1)
    /\ (xpc = "done" /\ Tagged # {}) =>
           /\ examined = 0..FirstTagged
           /\ xres.kind # "none"
           /\ xres \in OutcomesOf(FirstItem, build)

\* three items: another tag, a malformed container id, a well-formed one;
\* the call threw on the second
C6_Witness ==
    /\ xpc = "done" /\ Len(items) = 3
    /\ Tagged = {1, 2}
    /\ IsCanonicalText(items[3].Data) /\ ~IsCanonicalText(items[2].Data)
    /\ items[2].DataSize = 36
    /\ xres.kind = "error" /\ examined = {0, 1}

\* C7: when the first container-id item has 36 bytes that are a well-formed
\* text, the call returns the identifier parse_guid returns for them; for
\* 00000000-0000-0000-0000-000000000001 that is 15 zero bytes and then 1.
C7_SameAsParser ==
    (xpc = "done" /\ Tagged # {} /\ FirstItem.DataSize = 36
        /\ IsCanonicalText(FirstItem.Data)) =>
        /\ xres.kind = "guid"
        /\ parse_guid(FirstItem.Data, FirstItem.DataSize).kind = "guid"
        /\ xres.guid = parse_guid(FirstItem.Data, FirstItem.DataSize).guid
        /\ FirstItem.Data = ZeroOneText =>
               GuidBytes(xres.guid) = [k \in 1..16 |-> IF k = 16 THEN 1 ELSE 0]

\* 00000000-0000-0000-0000-000000000001 behind an item of another tag
C7_Witness ==
    /\ xpc = "done" /\ Len(items) = 2 /\ Tagged = {1}
    /\ items[2].Data = ZeroOneText
    /\ xres.kind = "guid"
    /\ GuidBytes(xres.guid) = <<0, 0, 0, 0, 0, 0, 0, 0, 0, 0, 0, 0, 0, 0, 0, 1>>

\* C8, as claimed: when the first container-id item has 36 bytes that are not
\* a well-formed text, the call throws the exception, with the failure's
\* error code and the 36 characters of the item in it; it returns neither
\* null nor an identifier and does not crash.
C8_AsClaimed ==
    (xpc = "done" /\ Tagged # {} /\ FirstItem.DataSize = 36
        /\ ~IsCanonicalText(FirstItem.Data)) =>
        /\ xres.kind = "error"
        /\ xres.guid = NoGuid
        /\ xres.errorCode # "S_OK"
        /\ \E at \in 0..(Len(xres.data) - 36) :
               \A k \in 1..36 : xres.data[at + k] = WideOf(AsChar(FirstItem.Data[k]))

\* C9, as claimed: a container-id item whose DataSize is not 36 makes the
\* call report a length error without copying: no byte of the item is read,
\* and none at an index from DataSize on.
C9_AsClaimed ==
    (xpc = "done" /\ Tagged # {} /\ FirstItem.DataSize # 36) =>
        /\ xres.kind = "error"
        /\ xres.reads = {}
        /\ xres.reads \subseteq 0..(FirstItem.DataSize - 1)

BytesDone == op = "hex_string_to_bytes" /\ ppc = "done"

\* the octet at index i of the run is two hex characters
IsHexOctet(i) == str[2 * i + 1] \in HexDigitChars /\ str[2 * i + 2] \in HexDigitChars

\* C11 as the spec states it: when any of the N octets handed to
\* hex_string_to_bytes is not two hex characters, the call reports failure
\* and byte_output is left exactly as it was before the call
C11_AsClaimed ==
    (BytesDone /\ \E i \in 0..(length - 1) : ~IsHexOctet(i))
        => (~presult.ok /\ byte_output = presult.before)

====
